---- MODULE Spec2Model ----
(***************************************************************************)
(* Model of the resume analyzer's request handler (POST /api/analyze) and  *)
(* of the helpers it calls: extract_text_from_pdf, analyze_resume_with_    *)
(* gemini, make_fallback_analysis, the lenient JSON parsing and the score  *)
(* normalization.  The repository ships the handler twice: api/index.py    *)
(* and index.py; `entry` says which of the two programs is running.        *)
(*                                                                         *)
(* Text is a sequence of one-character strings.  Python values are tagged  *)
(* records (PyNone, PyInt, PyStr, ...).  What the libraries and the remote *)
(* model return is chosen nondeterministically when the code calls them.   *)
(***************************************************************************)
EXTENDS Integers, Sequences, FiniteSets, TLC

\* ---------------------------------------------------------------- bounds
\* Pages of an uploaded PDF.
MaxPages == 2
\* How many characters beyond the debug limit the long texts run.
ExtraLen == 1

\* The debug block's cap on resume_text and jd_text.
DEBUG_LIMIT == 2000

\* ------------------------------------------------------------------ text
IsSpace(ch) == ch \in {" ", "\n", "\t"}

RECURSIVE FirstNonSpace(_, _)
FirstNonSpace(s, i) ==
    IF i > Len(s) THEN i
    ELSE IF IsSpace(s[i]) THEN FirstNonSpace(s, i + 1) ELSE i

RECURSIVE LastNonSpace(_, _)
LastNonSpace(s, i) ==
    IF i < 1 THEN i
    ELSE IF IsSpace(s[i]) THEN LastNonSpace(s, i - 1) ELSE i

\* str.strip()
Strip(s) ==
    LET a == FirstNonSpace(s, 1)
        b == LastNonSpace(s, Len(s))
    IN  IF a > b THEN <<>> ELSE SubSeq(s, a, b)

\* "\n".join(parts)
RECURSIVE JoinLines(_)
JoinLines(parts) ==
    IF parts = <<>> THEN <<>>
    ELSE IF Len(parts) = 1 THEN parts[1]
    ELSE parts[1] \o <<"\n">> \o JoinLines(Tail(parts))

\* s[:n]
Prefix(s, n) == IF Len(s) <= n THEN s ELSE SubSeq(s, 1, n)

Ellipsis == <<".", ".", ".">>

\* The cut applied already at the limit.
DebugTrim_AtLimit(s) ==
    IF Len(s) >= DEBUG_LIMIT THEN Prefix(s, DEBUG_LIMIT) \o Ellipsis ELSE s

\* (text[:2000] + "...") if len(text) > 2000 else text
DebugTrim(s) ==
    IF Len(s) > DEBUG_LIMIT THEN Prefix(s, DEBUG_LIMIT) \o Ellipsis ELSE s

\* A text of n characters, none of them whitespace.
TextOfLen(n) == [i \in 1..n |-> IF i % 2 = 1 THEN "a" ELSE "b"]

\* --------------------------------------------------------- Python values
\* None, bool, int, float (integer part and fraction digits without
\* trailing zeros), str, list and dict (a function on its keys).
PyNone == [t |-> "None"]
PyBool(b) == [t |-> "bool", b |-> b]
PyInt(n) == [t |-> "int", n |-> n]
PyFloat(ip, fr) == [t |-> "float", ip |-> ip, fr |-> fr]
PyStr(s) == [t |-> "str", s |-> s]
PyList(xs) == [t |-> "list", xs |-> xs]
PyDict(d) == [t |-> "dict", d |-> d]

EmptyDict == PyDict([k \in {} |-> PyNone])

\* bool(v): what `not ai_data` and `val or 0` test.
Truthy(v) ==
    CASE v.t = "None" -> FALSE
      [] v.t = "bool" -> v.b
      [] v.t = "int" -> v.n # 0
      [] v.t = "float" -> ~(v.ip = 0 /\ v.fr = <<>>)
      [] v.t = "str" -> v.s # <<>>
      [] v.t = "list" -> v.xs # <<>>
      [] v.t = "dict" -> DOMAIN v.d # {}

\* d.get(k, default) and d[k] = v on a dict.
DictHas(d, k) == k \in DOMAIN d.d
DictGet(d, k, default) == IF DictHas(d, k) THEN d.d[k] ELSE default
DictSet(d, k, v) ==
    PyDict([x \in (DOMAIN d.d) \cup {k} |-> IF x = k THEN v ELSE d.d[x]])

Digits == {"0", "1", "2", "3", "4", "5", "6", "7", "8", "9"}
DigitVal(ch) ==
    CASE ch = "0" -> 0 [] ch = "1" -> 1 [] ch = "2" -> 2 [] ch = "3" -> 3
      [] ch = "4" -> 4 [] ch = "5" -> 5 [] ch = "6" -> 6 [] ch = "7" -> 7
      [] ch = "8" -> 8 [] ch = "9" -> 9

\* ch.isdigit() or ch == "."
IsDigitOrDot(ch) == ch \in Digits \cup {"."}

RECURSIVE DigitsToInt(_)
DigitsToInt(ds) ==
    IF ds = <<>> THEN 0
    ELSE 10 * DigitsToInt(SubSeq(ds, 1, Len(ds) - 1)) + DigitVal(ds[Len(ds)])

RECURSIVE DropTrailingZeros(_)
DropTrailingZeros(ds) ==
    IF ds = <<>> THEN <<>>
    ELSE IF ds[Len(ds)] = "0" THEN DropTrailingZeros(SubSeq(ds, 1, Len(ds) - 1))
    ELSE ds

Raised == [ok |-> FALSE, v |-> PyNone]
Returned(v) == [ok |-> TRUE, v |-> v]

\* float(s) for a str, over the model's alphabet (digits, ".", "%", blanks,
\* letters): surrounding whitespace is ignored, then the text must be
\* digits with at most one "." and at least one digit; else ValueError.
FloatOfStr(s) ==
    LET body == Strip(s)
        dots == {i \in 1..Len(body) : body[i] = "."}
        digs == {i \in 1..Len(body) : body[i] \in Digits}
    IN  IF digs = {} \/ Cardinality(dots) > 1
           \/ Cardinality(dots) + Cardinality(digs) # Len(body)
        THEN Raised
        ELSE IF dots = {}
        THEN Returned(PyFloat(DigitsToInt(body), <<>>))
        ELSE LET p == CHOOSE i \in dots : TRUE
             IN  Returned(PyFloat(DigitsToInt(SubSeq(body, 1, p - 1)),
                                  DropTrailingZeros(SubSeq(body, p + 1, Len(body)))))

\* float(v): TypeError for None, list and dict, ValueError for a bad str.
FloatOf(v) ==
    CASE v.t = "int" -> Returned(PyFloat(v.n, <<>>))
      [] v.t = "float" -> Returned(v)
      [] v.t = "bool" -> Returned(PyFloat(IF v.b THEN 1 ELSE 0, <<>>))
      [] v.t = "str" -> FloatOfStr(v.s)
      [] OTHER -> Raised

IsNumber(v) == v.t \in {"int", "float"}

\* ------------------------------------------------------------- JSON text
\* The model's reply is a sequence of lexemes: the six punctuation marks,
\* an object key, a scalar literal, or a run of prose (text that is no JSON
\* lexeme and holds no brace).
Tok(k) == [k |-> k, v |-> PyNone]
KeyTok(name) == [k |-> "key", v |-> name]
LitTok(v) == [k |-> "lit", v |-> v]
ProseTok == Tok("prose")

ParseFail == [ok |-> FALSE, v |-> PyNone, next |-> 0]
ParseOk(v, next) == [ok |-> TRUE, v |-> v, next |-> next]

RECURSIVE ParseValue(_, _), ParseMembers(_, _, _), ParseElements(_, _, _)

\* One JSON value starting at lexeme i.
ParseValue(toks, i) ==
    IF i > Len(toks) THEN ParseFail
    ELSE CASE toks[i].k = "lit" -> ParseOk(toks[i].v, i + 1)
           [] toks[i].k = "{" ->
                IF i + 1 <= Len(toks) /\ toks[i + 1].k = "}"
                THEN ParseOk(EmptyDict, i + 2)
                ELSE ParseMembers(toks, i + 1, EmptyDict)
           [] toks[i].k = "[" ->
                IF i + 1 <= Len(toks) /\ toks[i + 1].k = "]"
                THEN ParseOk(PyList(<<>>), i + 2)
                ELSE ParseElements(toks, i + 1, <<>>)
           [] OTHER -> ParseFail

\* key : value pairs up to the closing brace; a repeated key keeps the last.
ParseMembers(toks, i, acc) ==
    IF i + 1 > Len(toks) \/ toks[i].k # "key" \/ toks[i + 1].k # ":"
    THEN ParseFail
    ELSE LET r == ParseValue(toks, i + 2)
         IN  IF ~r.ok \/ r.next > Len(toks) THEN ParseFail
             ELSE LET acc2 == DictSet(acc, toks[i].v, r.v)
                  IN  CASE toks[r.next].k = "}" -> ParseOk(acc2, r.next + 1)
                        [] toks[r.next].k = "," -> ParseMembers(toks, r.next + 1, acc2)
                        [] OTHER -> ParseFail

\* values up to the closing bracket.
ParseElements(toks, i, acc) ==
    LET r == ParseValue(toks, i)
    IN  IF ~r.ok \/ r.next > Len(toks) THEN ParseFail
        ELSE LET acc2 == Append(acc, r.v)
             IN  CASE toks[r.next].k = "]" -> ParseOk(PyList(acc2), r.next + 1)
                   [] toks[r.next].k = "," -> ParseElements(toks, r.next + 1, acc2)
                   [] OTHER -> ParseFail

\* json.loads(text): the whole text is one value, or it raises.
JsonLoads(toks) ==
    LET r == ParseValue(toks, 1)
    IN  IF r.ok /\ r.next = Len(toks) + 1 THEN Returned(r.v) ELSE Raised

\* re.search(r"(\{[\s\S]*\})", text): from the first "{" to the last "}".
BraceRegion(toks) ==
    LET opens == {i \in 1..Len(toks) : toks[i].k = "{"}
    IN  IF opens = {} THEN [found |-> FALSE, text |-> <<>>]
        ELSE LET a == CHOOSE i \in opens : \A j \in opens : i <= j
                 closes == {i \in (a + 1)..Len(toks) : toks[i].k = "}"}
             IN  IF closes = {} THEN [found |-> FALSE, text |-> <<>>]
                 ELSE LET b == CHOOSE i \in closes : \A j \in closes : j <= i
                      IN  [found |-> TRUE, text |-> SubSeq(toks, a, b)]

\* The handler's parsing of ai_output_text into ai_data (None on failure).
ParseAiOutput(toks) ==
    LET whole == JsonLoads(toks)
    IN  IF whole.ok THEN whole.v
        ELSE LET m == BraceRegion(toks)
             IN  IF m.found
                 THEN LET inner == JsonLoads(m.text)
                      IN  IF inner.ok THEN inner.v ELSE PyNone
                 ELSE PyNone

\* ------------------------------------------------------- normalization
SectionNames == <<"Skills", "Experience", "Education">>

\* The loop over the three section names; an exception leaves what was
\* already assigned and abandons the rest.
RECURSIVE NormalizeSections(_, _)
NormalizeSections(data, ks) ==
    IF ks = <<>> THEN data
    ELSE LET ss == DictGet(data, "section_scores", EmptyDict)
         IN  IF ss.t # "dict" THEN data
             ELSE LET val == DictGet(ss, Head(ks), PyInt(0))
                      val2 == IF val.t = "str"
                              THEN PyStr(SelectSeq(val.s, IsDigitOrDot))
                              ELSE val
                      f == FloatOf(IF Truthy(val2) THEN val2 ELSE PyInt(0))
                 IN  IF ~f.ok THEN data
                     ELSE IF ~DictHas(data, "section_scores") THEN data
                     ELSE NormalizeSections(
                              DictSet(data, "section_scores",
                                      DictSet(ss, Head(ks), f.v)),
                              Tail(ks))

\* The try block that normalizes numeric types; `except Exception: pass`.
NormalizeScores(data) ==
    IF data.t # "dict" THEN data
    ELSE LET f == FloatOf(DictGet(data, "ats_score", PyInt(0)))
         IN  IF ~f.ok THEN data
             ELSE NormalizeSections(DictSet(data, "ats_score", f.v), SectionNames)

\* ------------------------------------------------------- inputs drawn
\* What page.extract_text() may do on a page: raise, return None, or text.
PageRaise == [k |-> "raise", s |-> <<>>]
PageNone == [k |-> "none", s |-> <<>>]
PageText(s) == [k |-> "text", s |-> s]

LongText == TextOfLen(DEBUG_LIMIT + ExtraLen)
LimitText == TextOfLen(DEBUG_LIMIT)

EmbeddedOutcomes ==
    {PageRaise, PageNone, PageText(<<" ">>), PageText(<<"a", "\n">>),
     PageText(LongText)}

\* What pytesseract.image_to_string(img) may do: raise, or return text.
OcrOutcomes == {PageRaise, PageText(<<>>), PageText(<<"x", "\n">>)}

\* Job descriptions submitted in the form field jd.
JdTexts == {<<"j">>, LimitText, LongText}

\* random.randint(50, 90): the two ends of the range.
RandomScores == {50, 90}

Absent == [t |-> "absent"]

\* Objects the remote model may answer with: each score present or not,
\* numeric, a string, or null; section_scores a mapping, a list, or absent.
AtsRaw == {Absent, PyInt(70), PyStr(<<"8", "5", "%">>), PyNone}
SkillsRaw == {Absent, PyStr(<<"7", "0", "%">>)}
ExperienceRaw == {PyInt(80), PyStr(<<"1", ".", "2", ".", "3">>)}
EducationRaw == {PyNone, PyFloat(3, <<"5">>)}

WithKey(d, k, v) == IF v = Absent THEN d ELSE DictSet(d, k, v)

SectionsRaw ==
    {Absent, PyList(<<PyInt(1)>>)} \cup
    {WithKey(WithKey(WithKey(EmptyDict, "Skills", sk), "Experience", ex),
             "Education", ed) :
        sk \in SkillsRaw, ex \in ExperienceRaw, ed \in EducationRaw}

Lists == WithKey(WithKey(EmptyDict, "missing_keywords", PyList(<<>>)),
                 "suggestions", PyList(<<>>))

AiObjects ==
    {WithKey(WithKey(Lists, "ats_score", a), "section_scores", ss) :
        a \in AtsRaw, ss \in SectionsRaw}

AiScalars == {PyInt(5), PyInt(0), PyStr(<<"a">>), PyBool(TRUE), PyNone}

AiValues ==
    AiObjects \cup AiScalars \cup {EmptyDict, PyList(<<>>), PyList(<<PyInt(1)>>)}

KeyOrder ==
    <<"ats_score", "section_scores", "Skills", "Experience", "Education",
      "missing_keywords", "suggestions">>

\* The JSON text of a value, as lexemes.
RECURSIVE Dumps(_), DumpMembers(_, _), DumpElements(_)
Dumps(v) ==
    CASE v.t = "dict" ->
           <<Tok("{")>>
           \o DumpMembers(v, SelectSeq(KeyOrder, LAMBDA k : DictHas(v, k)))
           \o <<Tok("}")>>
      [] v.t = "list" -> <<Tok("[")>> \o DumpElements(v.xs) \o <<Tok("]")>>
      [] OTHER -> <<LitTok(v)>>
DumpMembers(v, ks) ==
    IF ks = <<>> THEN <<>>
    ELSE <<KeyTok(Head(ks)), Tok(":")>> \o Dumps(v.d[Head(ks)])
         \o (IF Len(ks) > 1 THEN <<Tok(",")>> ELSE <<>>)
         \o DumpMembers(v, Tail(ks))
DumpElements(xs) ==
    IF xs = <<>> THEN <<>>
    ELSE Dumps(Head(xs)) \o (IF Len(xs) > 1 THEN <<Tok(",")>> ELSE <<>>)
         \o DumpElements(Tail(xs))

\* Replies that are JSON, JSON inside prose, or no JSON at all.
RawResponses ==
    {Dumps(v) : v \in AiValues}
    \cup {<<ProseTok>> \o Dumps(v) \o <<ProseTok>> : v \in AiValues}
    \cup {<<ProseTok>>,
          <<ProseTok, Tok("{"), ProseTok, Tok("}")>>,
          <<ProseTok, Tok("{"), KeyTok("ats_score"), Tok(":")>>,
          <<Tok("}"), ProseTok, Tok("{")>>,
          Dumps(EmptyDict) \o <<ProseTok>> \o Dumps(EmptyDict)}

\* ----------------------------------------------------------------- state
VARIABLES
    entry,              \* which program runs: "api/index.py" or "index.py"
    pdfplumber,         \* module globals: the library imported
    convert_from_path,
    pytesseract,
    GENAI_AVAILABLE,
    GEMINI_API_KEY,     \* the credential is set
    pc,                 \* where the request's handling stands
    jd_text,
    tmp_path,           \* the temporary file's name ("" before it exists)
    files,              \* temporary files present on disk
    text_parts,         \* extract_text_from_pdf's locals ...
    pages_left,
    n_pages,            \* pages of the uploaded PDF (-1 until it is opened)
    combined,           \* <<>> until tier 1 joins its parts, then <<text>>
    result,             \* what extract_text_from_pdf returns
    rasterized,         \* convert_from_path was called
    ocr_calls,          \* calls of pytesseract.image_to_string
    ocr_texts,          \* what the calls that did not raise returned
    resume_text,
    ai_data,
    parsed,             \* ai_data as the analysis step left it
    model_calls,        \* calls of model.generate_content
    stages,             \* the pipeline steps the request went through
    response            \* status 0 until the handler returns

globals == <<entry, pdfplumber, convert_from_path, pytesseract,
             GENAI_AVAILABLE, GEMINI_API_KEY>>
frame == <<text_parts, pages_left, n_pages, combined, result, rasterized,
           ocr_calls, ocr_texts>>
request == <<jd_text, tmp_path, files, resume_text, ai_data, parsed,
             model_calls, stages, response>>
vars == <<globals, pc, frame, request>>

NoResponse == [status |-> 0, body |-> PyNone]

\* The state once the module is imported: each optional library imported
\* or not, genai.configure succeeded or not, the credential set or not.
Init ==
    /\ entry \in {"api/index.py", "index.py"}
    /\ pdfplumber \in BOOLEAN
    /\ convert_from_path \in BOOLEAN
    /\ pytesseract \in BOOLEAN
    /\ GEMINI_API_KEY \in BOOLEAN
    /\ \E imported \in BOOLEAN, configured \in BOOLEAN :
          GENAI_AVAILABLE = (imported /\ (GEMINI_API_KEY => configured))
    /\ pc = "idle"
    /\ jd_text = <<>>
    /\ tmp_path = ""
    /\ files = {}
    /\ text_parts = <<>>
    /\ pages_left = 0
    /\ n_pages = -1
    /\ combined = <<>>
    /\ result = <<>>
    /\ rasterized = FALSE
    /\ ocr_calls = 0
    /\ ocr_texts = <<>>
    /\ resume_text = <<>>
    /\ ai_data = PyNone
    /\ parsed = PyNone
    /\ model_calls = 0
    /\ stages = <<>>
    /\ response = NoResponse

\* A string literal of the source, kept whole as a single piece of text.
Literal(str) == PyStr(<<str>>)

ErrorBody(msg) == PyDict([k \in {"error"} |-> Literal(msg)])

\* The handler's `except Exception`: HTTP 500 (detail and trace, which
\* repeat the exception's text, are left out of the body).
ServerError == [status |-> 500, body |-> ErrorBody("Internal server error")]

\* ------------------------------------------------------ request intake
\* No "resume" among the uploaded files: HTTP 400.
RejectMissingResume ==
    /\ pc = "idle"
    /\ response' = [status |-> 400, body |-> ErrorBody("Resume file is required")]
    /\ pc' = "done"
    /\ UNCHANGED <<globals, frame, jd_text, tmp_path, files, resume_text,
                   ai_data, parsed, model_calls, stages>>

\* Read jd, create the temporary file and save the upload into it; the
\* save may fail (an I/O error), which the outer handler turns into 500.
SaveUpload ==
    /\ pc = "idle"
    /\ \E jd \in JdTexts, saved \in BOOLEAN :
          /\ jd_text' = jd
          /\ tmp_path' = "tmp1.pdf"
          /\ files' = files \cup {"tmp1.pdf"}
          /\ IF saved
             THEN pc' = "tier1" /\ response' = response
             ELSE pc' = "done" /\ response' = ServerError
    /\ UNCHANGED <<globals, frame, resume_text, ai_data, parsed, model_calls,
                   stages>>

\* ------------------------------------------------ extract_text_from_pdf
\* pdfplumber is None: tier 1 is skipped.
Tier1Skip ==
    /\ pc = "tier1"
    /\ ~pdfplumber
    /\ pc' = "ocr"
    /\ UNCHANGED <<globals, frame, request>>

\* pdfplumber.open(pdf_path): raises, or opens a PDF of some pages.
Tier1Open ==
    /\ pc = "tier1"
    /\ pdfplumber
    /\ \/ /\ pc' = "ocr"
          /\ UNCHANGED <<n_pages, pages_left>>
       \/ \E n \in 0..MaxPages :
             /\ n_pages' = n
             /\ pages_left' = n
             /\ pc' = "tier1_page"
    /\ UNCHANGED <<globals, request, text_parts, combined, result,
                   rasterized, ocr_calls, ocr_texts>>

\* One turn of the loop over pdf.pages: extract_text() raises (the except
\* clause ends tier 1, text_parts keeps what it has), or returns None or a
\* text, which is appended when it is not empty.
Tier1Page ==
    /\ pc = "tier1_page"
    /\ pages_left > 0
    /\ \E o \in EmbeddedOutcomes :
          IF o.k = "raise"
          THEN /\ pc' = "ocr"
               /\ UNCHANGED <<text_parts, pages_left>>
          ELSE /\ text_parts' = IF o.k = "text" /\ o.s # <<>>
                                THEN Append(text_parts, o.s)
                                ELSE text_parts
               /\ pages_left' = pages_left - 1
               /\ pc' = pc
    /\ UNCHANGED <<globals, request, n_pages, combined, result, rasterized,
                   ocr_calls, ocr_texts>>

\* Tier 1 without its early return.
Tier1Join_NoEarlyReturn ==
    /\ pc = "tier1_page"
    /\ pages_left = 0
    /\ combined' = <<Strip(JoinLines(text_parts))>>
    /\ pc' = "ocr"
    /\ UNCHANGED <<globals, request, text_parts, pages_left, n_pages, result,
                   rasterized, ocr_calls, ocr_texts>>

\* After the loop: join and strip; return the text when there is any.
Tier1Join ==
    /\ pc = "tier1_page"
    /\ pages_left = 0
    /\ LET c == Strip(JoinLines(text_parts))
       IN  /\ combined' = <<c>>
           /\ IF c # <<>>
              THEN result' = c /\ pc' = "extracted"
              ELSE result' = result /\ pc' = "ocr"
    /\ UNCHANGED <<globals, request, text_parts, pages_left, n_pages,
                   rasterized, ocr_calls, ocr_texts>>

\* convert_from_path or pytesseract is None: no OCR; return what there is.
OcrSkip ==
    /\ pc = "ocr"
    /\ ~(convert_from_path /\ pytesseract)
    /\ result' = Strip(JoinLines(text_parts))
    /\ pc' = "extracted"
    /\ UNCHANGED <<globals, request, text_parts, pages_left, n_pages,
                   combined, rasterized, ocr_calls, ocr_texts>>

\* convert_from_path(pdf_path): raises (caught: return what there is), or
\* gives one image per page.  TESSERACT_CMD and POPPLER_PATH only choose
\* the engine's path and the call's poppler_path argument.
OcrConvert ==
    /\ pc = "ocr"
    /\ convert_from_path /\ pytesseract
    /\ rasterized' = TRUE
    /\ \/ /\ result' = Strip(JoinLines(text_parts))
          /\ pc' = "extracted"
          /\ UNCHANGED <<n_pages, pages_left>>
       \/ \E n \in 0..MaxPages :
             /\ n_pages \in {-1, n}
             /\ n_pages' = n
             /\ pages_left' = n
             /\ pc' = "ocr_page"
             /\ result' = result
    /\ UNCHANGED <<globals, request, text_parts, combined, ocr_calls,
                   ocr_texts>>

\* The loop over the images without the inner try: a page's exception
\* leaves the function.
OcrPage_Uncaught ==
    /\ pc = "ocr_page"
    /\ pages_left > 0
    /\ ocr_calls' = ocr_calls + 1
    /\ pages_left' = pages_left - 1
    /\ \E o \in OcrOutcomes :
          IF o.k = "raise"
          THEN pc' = "extract_raised" /\ UNCHANGED <<text_parts, ocr_texts>>
          ELSE /\ ocr_texts' = Append(ocr_texts, o.s)
               /\ text_parts' = IF o.s # <<>> THEN Append(text_parts, o.s)
                                ELSE text_parts
               /\ pc' = pc
    /\ UNCHANGED <<globals, request, n_pages, combined, result, rasterized>>

\* One turn of the loop over the images: image_to_string raises (caught,
\* the loop goes on), or returns a text, appended when it is not empty.
OcrPage ==
    /\ pc = "ocr_page"
    /\ pages_left > 0
    /\ ocr_calls' = ocr_calls + 1
    /\ pages_left' = pages_left - 1
    /\ \E o \in OcrOutcomes :
          IF o.k = "raise"
          THEN UNCHANGED <<text_parts, ocr_texts>>
          ELSE /\ ocr_texts' = Append(ocr_texts, o.s)
               /\ text_parts' = IF o.s # <<>> THEN Append(text_parts, o.s)
                                ELSE text_parts
    /\ pc' = pc
    /\ UNCHANGED <<globals, request, n_pages, combined, result, rasterized>>

\* After the loop: return "\n".join(text_parts).strip().
OcrDone ==
    /\ pc = "ocr_page"
    /\ pages_left = 0
    /\ result' = Strip(JoinLines(text_parts))
    /\ pc' = "extracted"
    /\ UNCHANGED <<globals, request, text_parts, pages_left, n_pages,
                   combined, rasterized, ocr_calls, ocr_texts>>

\* resume_text = extract_text_from_pdf(tmp_path) or "": the call's locals
\* are gone once it has returned.
ExtractReturn ==
    /\ pc = "extracted"
    /\ resume_text' = result
    /\ stages' = Append(stages, "extraction")
    /\ text_parts' = <<>>
    /\ pages_left' = 0
    /\ n_pages' = -1
    /\ combined' = <<>>
    /\ result' = <<>>
    /\ rasterized' = FALSE
    /\ ocr_calls' = 0
    /\ ocr_texts' = <<>>
    /\ pc' = "analysis"
    /\ UNCHANGED <<globals, jd_text, tmp_path, files, ai_data, parsed,
                   model_calls, response>>

\* ------------------------------------------------------------- analysis
\* The guard without the credential.
AiConfigured_IgnoresKey == GENAI_AVAILABLE

\* if GENAI_AVAILABLE and GEMINI_API_KEY
AiConfigured == GENAI_AVAILABLE /\ GEMINI_API_KEY

\* ai_data stays None: the AI is not configured.
SkipAnalysis ==
    /\ pc = "analysis"
    /\ ~AiConfigured
    /\ ai_data' = PyNone
    /\ parsed' = PyNone
    /\ pc' = "decide"
    /\ UNCHANGED <<globals, frame, jd_text, tmp_path, files, resume_text,
                   model_calls, stages, response>>

\* analyze_resume_with_gemini, then the parsing of its text.  The function
\* raises before any call when GENAI_AVAILABLE is false; generate_content
\* raises (re-raised as RuntimeError, caught by the handler: ai_data None)
\* or the reply's text comes back and is parsed.
AttemptAnalysis ==
    /\ pc = "analysis"
    /\ AiConfigured
    /\ stages' = Append(stages, "analysis")
    /\ IF ~GENAI_AVAILABLE
       THEN ai_data' = PyNone /\ model_calls' = model_calls
       ELSE /\ model_calls' = model_calls + 1
            /\ \/ ai_data' = PyNone
               \/ \E text \in RawResponses : ai_data' = ParseAiOutput(text)
    /\ parsed' = ai_data'
    /\ pc' = "decide"
    /\ UNCHANGED <<globals, frame, jd_text, tmp_path, files, resume_text,
                   response>>

\* make_fallback_analysis() of api/index.py and of index.py.
FallbackSuggestions ==
    IF entry = "api/index.py"
    THEN <<Literal("Add cloud skills (AWS/GCP/Azure)."),
           Literal("Quantify achievements with numbers."),
           Literal("Include relevant keywords from the JD.")>>
    ELSE <<Literal("Add cloud skills (AWS/GCP/Azure)."),
           Literal("Quantify achievements in Experience (use numbers)."),
           Literal("Add relevant keywords from JD to Skills section.")>>

MakeFallbackAnalysis(a, sk, ex, ed) ==
    PyDict([k \in {"ats_score", "section_scores", "missing_keywords",
                   "suggestions"} |->
        CASE k = "ats_score" -> PyInt(a)
          [] k = "section_scores" ->
               PyDict([n \in {"Skills", "Experience", "Education"} |->
                   CASE n = "Skills" -> PyFloat(sk, <<>>)
                     [] n = "Experience" -> PyFloat(ex, <<>>)
                     [] n = "Education" -> PyFloat(ed, <<>>)])
          [] k = "missing_keywords" ->
               PyList(<<Literal("Python"), Literal("SQL"), Literal("AWS")>>)
          [] k = "suggestions" -> PyList(FallbackSuggestions)])

WarningText == Literal("Gemini API failed -- showing limited fallback results.")

\* `if not ai_data`: the fallback replaces a result that is None or falsy.
\* api/index.py then stores the warning in ai_data, which raises TypeError
\* when ai_data is not a mapping; index.py stores no warning.
FallbackDecision ==
    /\ pc = "decide"
    /\ stages' = Append(stages, "fallback decision")
    /\ \E a \in RandomScores, sk \in RandomScores, ex \in RandomScores,
          ed \in RandomScores :
          LET api_failed == ~Truthy(ai_data)
              data == IF api_failed THEN MakeFallbackAnalysis(a, sk, ex, ed)
                      ELSE ai_data
              warning == IF api_failed THEN WarningText ELSE PyStr(<<>>)
          IN  IF entry = "index.py"
              THEN ai_data' = data /\ pc' = "normalize" /\ response' = response
              ELSE IF data.t # "dict"
              THEN ai_data' = data /\ pc' = "done" /\ response' = ServerError
              ELSE /\ ai_data' = DictSet(data, "warning", warning)
                   /\ pc' = "normalize"
                   /\ response' = response
    /\ UNCHANGED <<globals, frame, jd_text, tmp_path, files, resume_text,
                   parsed, model_calls>>

\* The try block that coerces the scores to float.
Normalize ==
    /\ pc = "normalize"
    /\ stages' = Append(stages, "normalization")
    /\ ai_data' = NormalizeScores(ai_data)
    /\ pc' = "finalize"
    /\ UNCHANGED <<globals, frame, jd_text, tmp_path, files, resume_text,
                   parsed, model_calls, response>>

DebugBlock ==
    PyDict([k \in {"resume_text", "jd_text"} |->
        IF k = "resume_text" THEN PyStr(DebugTrim(resume_text))
        ELSE PyStr(DebugTrim(jd_text))])

\* ai_data["debug"] = {...} (TypeError when ai_data is not a mapping, so
\* HTTP 500), then return jsonify(ai_data), 200.
Finalize ==
    /\ pc = "finalize"
    /\ stages' = Append(stages, "finalization")
    /\ IF ai_data.t # "dict"
       THEN ai_data' = ai_data /\ response' = ServerError
       ELSE /\ ai_data' = DictSet(ai_data, "debug", DebugBlock)
            /\ response' = [status |-> 200, body |-> ai_data']
    /\ pc' = "done"
    /\ UNCHANGED <<globals, frame, jd_text, tmp_path, files, resume_text,
                   parsed, model_calls>>

Next ==
    \/ RejectMissingResume
    \/ SaveUpload
    \/ Tier1Skip
    \/ Tier1Open
    \/ Tier1Page
    \/ Tier1Join
    \/ OcrSkip
    \/ OcrConvert
    \/ OcrPage
    \/ OcrDone
    \/ ExtractReturn
    \/ SkipAnalysis
    \/ AttemptAnalysis
    \/ FallbackDecision
    \/ Normalize
    \/ Finalize

Spec == Init /\ [][Next]_vars

\* ----------------------------------------------------------- properties
Range(seq) == {seq[i] : i \in 1..Len(seq)}

Ok200 == response.status = 200

\* C1: every HTTP 200 body has ats_score and the three section scores
\* present and numeric, whatever the parsed AI result was and for the
\* fallback result.
C1_ScoresPresentAndNumeric ==
    Ok200 =>
        LET b == response.body
        IN  /\ DictHas(b, "ats_score")
            /\ IsNumber(b.d["ats_score"])
            /\ DictHas(b, "section_scores")
            /\ b.d["section_scores"].t = "dict"
            /\ \A k \in Range(SectionNames) :
                  /\ DictHas(b.d["section_scores"], k)
                  /\ IsNumber(b.d["section_scores"].d[k])

\* C2: a request that carried a resume file and reached the analysis ends
\* with HTTP 200, whatever the AI call did or returned.
C2_AnalysisFailuresAbsorbed ==
    (pc = "done" /\ "extraction" \in Range(stages)) => Ok200

IsFallbackBody(b) ==
    /\ DictHas(b, "missing_keywords")
    /\ b.d["missing_keywords"] =
          PyList(<<Literal("Python"), Literal("SQL"), Literal("AWS")>>)

\* C3: in every HTTP 200 response (here: of api/index.py, the analysis
\* having given nothing or a JSON object) warning is a non-empty string
\* exactly when the analysis was skipped, failed or parsed to null, and
\* then the scores are the fallback's; otherwise, an empty object included,
\* warning is "" and the parsed result is kept.
C3_WarningIffNoResult ==
    (Ok200 /\ entry = "api/index.py" /\ parsed.t \in {"None", "dict"}) =>
        LET b == response.body
        IN  /\ DictHas(b, "warning")
            /\ b.d["warning"].t = "str"
            /\ IF parsed = PyNone
               THEN b.d["warning"].s # <<>> /\ IsFallbackBody(b)
               ELSE b.d["warning"].s = <<>> /\ ~IsFallbackBody(b)

\* C4: once the request has completed (here: with HTTP 200), the temporary
\* file created for it no longer exists.
C4_TempFileRemoved ==
    (pc = "done" /\ Ok200) => tmp_path \notin files

\* A raw section value the claim gives a float for: a number, a string
\* whose digits and dots read as a number or are none, null, or absent.
ExpectedSection(raw) ==
    IF raw.t = "str"
    THEN LET kept == SelectSeq(raw.s, IsDigitOrDot)
         IN  IF kept = <<>> THEN Returned(PyFloat(0, <<>>)) ELSE FloatOfStr(kept)
    ELSE IF raw.t = "None" THEN Returned(PyFloat(0, <<>>))
    ELSE FloatOf(raw)

\* C5: each section score ends as the float of its raw value (a string
\* first stripped to digits and dots; absent, null or empty giving 0.0),
\* independently of ats_score, also when ats_score is a string such as
\* "85%".  Stated for the results whose section_scores is a mapping of
\* values that each have such a float.
C5_SectionsCoercedIndependently ==
    (/\ pc = "finalize"
     /\ parsed.t = "dict"
     /\ DictHas(parsed, "ats_score")
     /\ parsed.d["ats_score"].t = "str"
     /\ DictHas(parsed, "section_scores")
     /\ parsed.d["section_scores"].t = "dict"
     /\ \A k \in Range(SectionNames) :
           ExpectedSection(DictGet(parsed.d["section_scores"], k, PyNone)).ok)
    => \A k \in Range(SectionNames) :
          /\ DictHas(ai_data.d["section_scores"], k)
          /\ ai_data.d["section_scores"].d[k] =
                ExpectedSection(DictGet(parsed.d["section_scores"], k, PyNone)).v

\* C6: when tier 1 yields text that is not empty after stripping, that text
\* is returned and neither rasterization nor OCR ran in the call.
C6_Tier1TextSkipsOcr ==
    (pc = "extracted" /\ combined # <<>> /\ combined[1] # <<>>) =>
        /\ result = combined[1]
        /\ ~rasterized
        /\ ocr_calls = 0

C6_Witness ==
    /\ pc = "extracted"
    /\ combined # <<>> /\ combined[1] # <<>>
    /\ convert_from_path /\ pytesseract
    /\ Len(text_parts) = MaxPages

Chars == {" ", "\n", "\t", "a", "b", "x", "j"}

\* C7: extract_text_from_pdf never raises; it returns a string, the empty
\* one when no tier produced text.
C7_ExtractNeverRaises ==
    /\ pc # "extract_raised"
    /\ pc = "extracted" =>
          /\ \A i \in 1..Len(result) : result[i] \in Chars
          /\ text_parts = <<>> => result = <<>>

C7_Witness ==
    /\ pc = "extracted"
    /\ rasterized
    /\ ocr_calls > Len(ocr_texts)
    /\ text_parts = <<>>
    /\ result = <<>>

\* C8: in an HTTP 200 response debug.resume_text is the extracted text when
\* that has at most 2000 characters, else its first 2000 characters and
\* "..." (2003 characters); likewise debug.jd_text for the job description.
Truncated(shown, full) ==
    IF Len(full) <= DEBUG_LIMIT THEN shown = full
    ELSE /\ Len(shown) = DEBUG_LIMIT + 3
         /\ SubSeq(shown, 1, DEBUG_LIMIT) = SubSeq(full, 1, DEBUG_LIMIT)
         /\ SubSeq(shown, DEBUG_LIMIT + 1, DEBUG_LIMIT + 3) = <<".", ".", ".">>

C8_DebugTruncation ==
    Ok200 =>
        /\ DictHas(response.body, "debug")
        /\ Truncated(response.body.d["debug"].d["resume_text"].s, resume_text)
        /\ Truncated(response.body.d["debug"].d["jd_text"].s, jd_text)

C8_Witness ==
    /\ Ok200
    /\ Len(resume_text) > DEBUG_LIMIT
    /\ Len(jd_text) = DEBUG_LIMIT

StageOrder ==
    <<"extraction", "analysis", "fallback decision", "normalization",
      "finalization">>

StageIndex(name) == CHOOSE i \in 1..Len(StageOrder) : StageOrder[i] = name

\* C9: the pipeline's steps run once each, in order; the remote model is
\* called at most once per request, and not at all when the AI is not
\* configured (library unavailable or credential missing).
C9_PipelineOnce ==
    /\ model_calls <= 1
    /\ ~(GENAI_AVAILABLE /\ GEMINI_API_KEY) => model_calls = 0
    /\ \A i \in 1..Len(stages) : \A j \in 1..Len(stages) :
          i < j => StageIndex(stages[i]) < StageIndex(stages[j])
    /\ Ok200 =>
          Range(StageOrder) \ {"analysis"} \subseteq Range(stages)
    /\ "analysis" \in Range(stages) => model_calls = 1

C9_Witness ==
    /\ Ok200
    /\ model_calls = 1
    /\ parsed = PyNone
    /\ Len(stages) = Len(StageOrder)

\* C10: when the call reaches the OCR tier (pages were handed to the
\* recognizer), the returned text is the stripped newline-join of the texts
\* recognized on the pages whose recognition succeeded, and holds no text
\* collected by tier 1.
C10_OcrResultIsOcrText ==
    (pc = "extracted" /\ ocr_calls > 0) =>
        result = Strip(JoinLines(SelectSeq(ocr_texts, LAMBDA s : s # <<>>)))

====
